---------------------------- MODULE Spec2Model ----------------------------
(***************************************************************************)
(* Condition extraction of chia/util/condition_tools.py and the NPC       *)
(* aggregate of chia/types/name_puzzle_condition.py.                       *)
(*                                                                         *)
(* Every function of the two files is an operator, computed the way the    *)
(* code computes it, and an action that calls it on an input drawn from a  *)
(* bounded set.  The state is the call in progress: which function was     *)
(* called (op), on what (arg), and what came back (out): a returned value  *)
(* or a raised exception.                                                  *)
(***************************************************************************)
EXTENDS Integers, Sequences, FiniteSets, TLC

VARIABLES op, arg, out

vars == <<op, arg, out>>

(***************************************************************************)
(* Bounds of the model.                                                    *)
(***************************************************************************)
MaxItems == 4
MaxNodes == 3
MaxConds == 3
MaxNpcs == 2
MaxCost == 2
MaxEntries == 2

SeqsOf(S, lo, hi) == UNION {[1..n -> S] : n \in lo..hi}

(***************************************************************************)
(* Values.  A byte string is a sequence of numbers 0..255.  An element of  *)
(* a list node, as as_python() gives it, is a byte string (an atom) or a   *)
(* nested list.  Python's None is a wrapper of its own, so that None and   *)
(* the empty list stay apart.                                              *)
(***************************************************************************)
Atom(b) == [atom |-> TRUE, b |-> b]
ListElem == [atom |-> FALSE, b |-> <<>>]

None == [none |-> TRUE, v |-> <<>>]
Some(x) == [none |-> FALSE, v |-> x]

AtomNode == [listp |-> FALSE, items |-> <<>>]
ListNode(items) == [listp |-> TRUE, items |-> items]

Return(err, val, cost) == [kind |-> "return", exc |-> "", err |-> err, val |-> val, cost |-> cost]
Raise(exc) == [kind |-> "raise", exc |-> exc, err |-> "", val |-> None, cost |-> 0]

NoError == "None"
INVALID_CONDITION == "INVALID_CONDITION"
SEXP_ERROR == "SEXP_ERROR"

(***************************************************************************)
(* ConditionOpcode: the enumeration of byte encodings.  51 and 60 are the  *)
(* encodings the specification names, the others stand for the rest of    *)
(* the table; UNKNOWN is a member of its own.                              *)
(***************************************************************************)
ConditionOpcode ==
    [UNKNOWN |-> <<48>>,
     AGG_SIG |-> <<50>>,
     CREATE_COIN |-> <<51>>,
     AGG_SIG_ME |-> <<57>>,
     CREATE_ANNOUNCEMENT_WITH_ID |-> <<60>>,
     CREATE_ANNOUNCEMENT_WITH_PUZZLEHASH |-> <<62>>]

Opcodes == DOMAIN ConditionOpcode

\* ConditionOpcode(value) succeeds exactly on the encodings of the table.
IsOpcodeValue(b) == \E o \in Opcodes : ConditionOpcode[o] = b
OpcodeOfValue(b) == CHOOSE o \in Opcodes : ConditionOpcode[o] = b

ConditionVarPair(opcode, cvars) == [opcode |-> opcode, vars |-> cvars]

(***************************************************************************)
(* parse_sexp_to_condition                                                 *)
(***************************************************************************)
\* Mutant: the ValueError of an encoding outside the table is not caught
\* and becomes a failure.
parse_sexp_to_condition_unknown_fails(sexp) ==
    IF ~sexp.listp
    THEN Return(INVALID_CONDITION, None, 0)
    ELSE LET items == sexp.items IN
         IF ~items[1].atom \/ ~IsOpcodeValue(items[1].b)
         THEN Return(INVALID_CONDITION, None, 0)
         ELSE LET opcode == OpcodeOfValue(items[1].b)
              IN IF Len(items) = 3
                 THEN Return(NoError, Some(ConditionVarPair(opcode, <<items[2], items[3]>>)), 0)
                 ELSE IF Len(items) < 2
                      THEN Raise("IndexError")
                      ELSE Return(NoError, Some(ConditionVarPair(opcode, <<items[2]>>)), 0)

parse_sexp_to_condition(sexp) ==
    IF ~sexp.listp
    THEN Return(INVALID_CONDITION, None, 0)
    ELSE LET items == sexp.items IN
         IF ~items[1].atom
         THEN Return(INVALID_CONDITION, None, 0)
         ELSE LET opcode == IF IsOpcodeValue(items[1].b)
                            THEN OpcodeOfValue(items[1].b)
                            ELSE "UNKNOWN"
              IN IF Len(items) = 3
                 THEN Return(NoError, Some(ConditionVarPair(opcode, <<items[2], items[3]>>)), 0)
                 ELSE IF Len(items) < 2
                      THEN Raise("IndexError")
                      ELSE Return(NoError, Some(ConditionVarPair(opcode, <<items[2]>>)), 0)

(***************************************************************************)
(* parse_sexp_to_conditions: the loop over sexp.as_iter(), results being   *)
(* the list built so far.  An exception that is not a ConsensusError       *)
(* leaves the loop and the function.                                       *)
(***************************************************************************)
RECURSIVE parse_loop(_, _)
parse_loop(rest, results) ==
    IF rest = <<>>
    THEN Return(NoError, Some(results), 0)
    ELSE LET r == parse_sexp_to_condition(Head(rest)) IN
         IF r.kind = "raise"
         THEN IF r.exc = "ConsensusError"
              THEN Return(INVALID_CONDITION, None, 0)
              ELSE r
         ELSE IF r.err # NoError
              THEN Return(r.err, None, 0)
              ELSE parse_loop(Tail(rest), Append(results, r.val.v))

parse_sexp_to_conditions(sexp) == parse_loop(sexp, <<>>)

(***************************************************************************)
(* conditions_by_opcode: a dict is a function whose domain is its keys.    *)
(***************************************************************************)
RECURSIVE by_opcode_loop(_, _)
by_opcode_loop(rest, d) ==
    IF rest = <<>>
    THEN d
    ELSE LET cvp == Head(rest)
             d1 == IF cvp.opcode \notin DOMAIN d THEN d @@ (cvp.opcode :> <<>>) ELSE d
         IN by_opcode_loop(Tail(rest), [d1 EXCEPT ![cvp.opcode] = Append(@, cvp)])

EmptyDict == [k \in {} |-> <<>>]

\* Mutant: a condition replaces the list of its opcode instead of joining it.
RECURSIVE by_opcode_overwrite_loop(_, _)
by_opcode_overwrite_loop(rest, d) ==
    IF rest = <<>>
    THEN d
    ELSE LET cvp == Head(rest)
             d1 == IF cvp.opcode \notin DOMAIN d THEN d @@ (cvp.opcode :> <<>>) ELSE d
         IN by_opcode_overwrite_loop(Tail(rest), [d1 EXCEPT ![cvp.opcode] = <<cvp>>])

conditions_by_opcode_overwrite(conditions) == by_opcode_overwrite_loop(conditions, EmptyDict)

conditions_by_opcode(conditions) == by_opcode_loop(conditions, EmptyDict)

\* dict.get(key, [])
Get(d, k) == IF k \in DOMAIN d THEN d[k] ELSE <<>>

(***************************************************************************)
(* G1Element.from_bytes: the public-key decoder.  It raises ValueError on  *)
(* a byte string that encodes no group element and TypeError on what is    *)
(* no byte string.  G1Encodings stands for the valid encodings.            *)
(***************************************************************************)
G1Encodings == {<<11>>, <<12>>}

G1Element_from_bytes(x) ==
    IF ~x.atom
    THEN Raise("TypeError")
    ELSE IF x.b \in G1Encodings
         THEN Return(NoError, Some([g1 |-> x.b]), 0)
         ELSE Raise("ValueError")

(***************************************************************************)
(* pkm_pairs_for_conditions_dict: the loop over AGG_SIG, then, with a coin *)
(* name, the loop over AGG_SIG_ME.  vars[0] and vars[1] of the code are    *)
(* vars[1] and vars[2] here.  A pair is <<public key, message>>.           *)
(***************************************************************************)
RECURSIVE agg_sig_loop(_, _)
agg_sig_loop(rest, ret) ==
    IF rest = <<>>
    THEN Return(NoError, Some(ret), 0)
    ELSE LET cvp == Head(rest) IN
         IF Len(cvp.vars) < 2
         THEN Raise("IndexError")
         ELSE LET pk == G1Element_from_bytes(cvp.vars[1]) IN
              IF pk.kind = "raise"
              THEN pk
              ELSE agg_sig_loop(Tail(rest), Append(ret, <<pk.val.v, cvp.vars[2]>>))

RECURSIVE agg_sig_me_loop(_, _, _)
agg_sig_me_loop(rest, coin_name, ret) ==
    IF rest = <<>>
    THEN Return(NoError, Some(ret), 0)
    ELSE LET cvp == Head(rest)
             pk == G1Element_from_bytes(cvp.vars[1])
         IN IF pk.kind = "raise"
            THEN pk
            ELSE IF Len(cvp.vars) < 2
                 THEN Raise("IndexError")
                 ELSE IF ~cvp.vars[2].atom
                      THEN Raise("TypeError")
                      ELSE agg_sig_me_loop(Tail(rest), coin_name,
                               Append(ret, <<pk.val.v, Atom(cvp.vars[2].b \o coin_name)>>))

\* Mutant: the AGG_SIG_ME message is left as it is, not bound to the coin.
pkm_pairs_unbound(conditions_dict, coin_name) ==
    LET r == agg_sig_loop(Get(conditions_dict, "AGG_SIG"), <<>>) IN
    IF r.kind = "raise"
    THEN r
    ELSE IF ~coin_name.none
         THEN agg_sig_loop(Get(conditions_dict, "AGG_SIG_ME"), r.val.v)
         ELSE r

pkm_pairs_for_conditions_dict(conditions_dict, coin_name) ==
    LET r == agg_sig_loop(Get(conditions_dict, "AGG_SIG"), <<>>) IN
    IF r.kind = "raise"
    THEN r
    ELSE IF ~coin_name.none
         THEN agg_sig_me_loop(Get(conditions_dict, "AGG_SIG_ME"), coin_name.v, r.val.v)
         ELSE r

(***************************************************************************)
(* int_from_bytes: the generic big-endian decode of an integer, the high   *)
(* bit of the leading byte being the sign.                                 *)
(***************************************************************************)
RECURSIVE big_endian(_)
big_endian(blob) ==
    IF blob = <<>>
    THEN 0
    ELSE big_endian(SubSeq(blob, 1, Len(blob) - 1)) * 256 + blob[Len(blob)]

int_from_bytes(blob) ==
    IF Len(blob) = 0
    THEN 0
    ELSE IF blob[1] >= 128
         THEN big_endian(blob) - 256 ^ Len(blob)
         ELSE big_endian(blob)

\* The coin constructor.
Coin(parent_coin_info, puzzle_hash, amount) ==
    [parent_coin_info |-> parent_coin_info, puzzle_hash |-> puzzle_hash, amount |-> amount]

(***************************************************************************)
(* created_outputs_for_conditions_dict                                     *)
(***************************************************************************)
RECURSIVE created_outputs_loop(_, _, _)
created_outputs_loop(rest, input_coin_name, output_coins) ==
    IF rest = <<>>
    THEN Return(NoError, Some(output_coins), 0)
    ELSE LET cvp == Head(rest) IN
         IF Len(cvp.vars) < 2
         THEN Raise("IndexError")
         ELSE LET puzzle_hash == cvp.vars[1]
                  amount_bin == cvp.vars[2]
              IN IF ~amount_bin.atom
                 THEN Raise("TypeError")
                 ELSE created_outputs_loop(Tail(rest), input_coin_name,
                          Append(output_coins,
                                 Coin(input_coin_name, puzzle_hash, int_from_bytes(amount_bin.b))))

created_outputs_for_conditions_dict(conditions_dict, input_coin_name) ==
    created_outputs_loop(Get(conditions_dict, "CREATE_COIN"), input_coin_name, <<>>)

(***************************************************************************)
(* Announcements.  The name of an announcement is the hash of its scope    *)
(* identifier followed by its message; the hash is modelled as the tagged  *)
(* preimage, which is deterministic and free of collisions, the tag being  *)
(* no byte.  An input coin carries its identifier, the value of name(),    *)
(* and its puzzle hash.                                                    *)
(***************************************************************************)
std_hash(b) == <<-1>> \o b

Announcement(origin_info, message) == [origin_info |-> origin_info, message |-> message]

AnnouncementName(an) == std_hash(an.origin_info \o an.message)

RECURSIVE announcements_loop(_, _, _)
announcements_loop(rest, origin_info, output_announcements) ==
    IF rest = <<>>
    THEN output_announcements
    ELSE announcements_loop(Tail(rest), origin_info,
             Append(output_announcements, Announcement(origin_info, Head(rest).vars[1].b)))

coin_announcements_for_conditions_dict(conditions_dict, input_coin) ==
    announcements_loop(Get(conditions_dict, "CREATE_ANNOUNCEMENT_WITH_ID"),
                       input_coin.name, <<>>)

puzzle_announcements_for_conditions_dict(conditions_dict, input_coin) ==
    announcements_loop(Get(conditions_dict, "CREATE_ANNOUNCEMENT_WITH_PUZZLEHASH"),
                       input_coin.puzzle_hash, <<>>)

coin_announcement_names_for_conditions_dict(conditions_dict, input_coin) ==
    LET ans == coin_announcements_for_conditions_dict(conditions_dict, input_coin)
    IN [i \in 1..Len(ans) |-> AnnouncementName(ans[i])]

puzzle_announcement_names_for_conditions_dict(conditions_dict, input_coin) ==
    LET ans == puzzle_announcements_for_conditions_dict(conditions_dict, input_coin)
    IN [i \in 1..Len(ans) |-> AnnouncementName(ans[i])]

(***************************************************************************)
(* The batch projections: for every npc, for every (condition, cvp_list)   *)
(* of npc.conditions with the wanted opcode, for every cvp of cvp_list.    *)
(* An entry of npc.conditions is <<opcode, cvp_list>>.                     *)
(***************************************************************************)
\* The conditions of an NPC, entry after entry.
RECURSIVE Flatten(_)
Flatten(conditions) ==
    IF conditions = <<>> THEN <<>> ELSE Head(conditions)[2] \o Flatten(Tail(conditions))

RECURSIVE names_of_cvp_list(_, _, _)
names_of_cvp_list(cvp_list, origin_info, output_announcements) ==
    IF cvp_list = <<>>
    THEN output_announcements
    ELSE names_of_cvp_list(Tail(cvp_list), origin_info,
             Append(output_announcements,
                    AnnouncementName(Announcement(origin_info, Head(cvp_list).vars[1].b))))

RECURSIVE names_of_conditions(_, _, _, _)
names_of_conditions(conditions, wanted, origin_info, output_announcements) ==
    IF conditions = <<>>
    THEN output_announcements
    ELSE LET condition == Head(conditions)[1]
             cvp_list == Head(conditions)[2]
         IN names_of_conditions(Tail(conditions), wanted, origin_info,
                IF condition = wanted
                THEN names_of_cvp_list(cvp_list, origin_info, output_announcements)
                ELSE output_announcements)

RECURSIVE coin_names_loop(_, _)
coin_names_loop(npc_list, output_announcements) ==
    IF npc_list = <<>>
    THEN output_announcements
    ELSE LET npc == Head(npc_list) IN
         coin_names_loop(Tail(npc_list),
             names_of_conditions(npc.conditions, "CREATE_ANNOUNCEMENT_WITH_ID",
                                 npc.coin_name, output_announcements))

\* Mutant: the batch scan takes every entry, whatever its opcode.
RECURSIVE coin_names_unfiltered_loop(_, _)
coin_names_unfiltered_loop(npc_list, output_announcements) ==
    IF npc_list = <<>>
    THEN output_announcements
    ELSE LET npc == Head(npc_list) IN
         coin_names_unfiltered_loop(Tail(npc_list),
             names_of_cvp_list(Flatten(npc.conditions), npc.coin_name, output_announcements))

coin_announcements_names_unfiltered(npc_list) == coin_names_unfiltered_loop(npc_list, <<>>)

coin_announcements_names_for_npc(npc_list) == coin_names_loop(npc_list, <<>>)

RECURSIVE puzzle_names_loop(_, _)
puzzle_names_loop(npc_list, output_announcements) ==
    IF npc_list = <<>>
    THEN output_announcements
    ELSE LET npc == Head(npc_list) IN
         puzzle_names_loop(Tail(npc_list),
             names_of_conditions(npc.conditions, "CREATE_ANNOUNCEMENT_WITH_PUZZLEHASH",
                                 npc.puzzle_hash, output_announcements))

puzzle_announcements_names_for_npc(npc_list) == puzzle_names_loop(npc_list, <<>>)

(***************************************************************************)
(* NPC and its property condition_dict: d[opcode] = l for every entry.     *)
(***************************************************************************)
NPC(coin_name, puzzle_hash, conditions) ==
    [coin_name |-> coin_name, puzzle_hash |-> puzzle_hash, conditions |-> conditions]

RECURSIVE condition_dict_loop(_, _)
condition_dict_loop(conditions, d) ==
    IF conditions = <<>>
    THEN d
    ELSE LET opcode == Head(conditions)[1]
             l == Head(conditions)[2]
         IN condition_dict_loop(Tail(conditions),
                IF opcode \in DOMAIN d
                THEN [d EXCEPT ![opcode] = l]
                ELSE d @@ (opcode :> l))

condition_dict(npc) == condition_dict_loop(npc.conditions, EmptyDict)

(***************************************************************************)
(* The orchestrator.  A puzzle program is what the interpreter makes of    *)
(* it on each solution: an evaluation error, or a cost and an output.      *)
(***************************************************************************)
EvalError == [raises |-> TRUE, cost |-> 0, r |-> <<>>]
Ran(cost, r) == [raises |-> FALSE, cost |-> cost, r |-> r]

run_with_cost(puzzle_reveal, solution) == puzzle_reveal[solution]

conditions_for_solution(puzzle_reveal, solution) ==
    LET run == run_with_cost(puzzle_reveal, solution) IN
    IF run.raises
    THEN Return(SEXP_ERROR, None, 0)
    ELSE LET parsed == parse_sexp_to_conditions(run.r) IN
         IF parsed.kind = "raise"
         THEN parsed
         ELSE Return(parsed.err, parsed.val, run.cost)

conditions_dict_for_solution(puzzle_reveal, solution) ==
    LET r == conditions_for_solution(puzzle_reveal, solution) IN
    IF r.kind = "raise"
    THEN r
    ELSE IF r.err # NoError \/ r.val.none
         THEN Return(r.err, None, 0)
         ELSE Return(NoError, Some(conditions_by_opcode(r.val.v)), r.cost)

(***************************************************************************)
(* Inputs.                                                                 *)
(***************************************************************************)
Elems ==
    {Atom(ConditionOpcode.CREATE_COIN), Atom(ConditionOpcode.AGG_SIG),
     Atom(ConditionOpcode.UNKNOWN), Atom(<<7>>),
     Atom(ConditionOpcode.CREATE_COIN \o <<0>>), Atom(<<>>), ListElem}

\* A list node holds at least one element: the empty list is the atom nil.
Nodes == {AtomNode} \cup {ListNode(s) : s \in SeqsOf(Elems, 1, MaxItems)}

\* The nodes of an interpreter's output: one of each shape and count.
OutputNodes ==
    {AtomNode, ListNode(<<ListElem, Atom(<<1>>)>>), ListNode(<<Atom(<<7>>), Atom(<<1>>)>>)}
    \cup {ListNode(<<Atom(ConditionOpcode.CREATE_COIN)>> \o s) :
            s \in SeqsOf({Atom(<<1>>)}, 0, MaxItems - 1)}

Outputs == SeqsOf(OutputNodes, 0, MaxNodes)

CondOpcodes == {"CREATE_COIN", "AGG_SIG", "UNKNOWN"}
CondVars == {<<Atom(<<1>>)>>, <<Atom(<<1>>), Atom(<<2>>)>>}
Conds == {ConditionVarPair(o, v) : o \in CondOpcodes, v \in CondVars}
CondLists == SeqsOf(Conds, 0, MaxConds)

\* Signature conditions as the interpreter puts them out.
PublicKeys == {Atom(<<11>>), Atom(<<13>>)}
Messages == {Atom(<<>>), Atom(<<5>>)}
SigNodes ==
    {ListNode(<<Atom(ConditionOpcode[o])>> \o v) :
        o \in {"AGG_SIG", "AGG_SIG_ME"},
        v \in {<<k>> : k \in PublicKeys} \cup {<<k, m>> : k \in PublicKeys, m \in Messages}}
    \cup {ListNode(<<Atom(ConditionOpcode.CREATE_COIN), Atom(<<11>>)>>)}
SigOutputs == SeqsOf(SigNodes, 0, MaxNodes)
CoinNames == {None, Some(<<>>), Some(<<9>>)}

\* Coin creations as the interpreter puts them out.
Amounts == {<<>>, <<0>>, <<100>>, <<255>>, <<0, 255>>, <<255, 0>>, <<1, 0>>}
CoinNodes ==
    {ListNode(<<Atom(ConditionOpcode.CREATE_COIN), Atom(<<170>>)>> \o v) :
        v \in {<<>>} \cup {<<Atom(a)>> : a \in Amounts}}
    \cup {ListNode(<<Atom(ConditionOpcode.AGG_SIG), Atom(<<11>>), Atom(<<5>>)>>)}
CoinOutputs == SeqsOf(CoinNodes, 0, MaxNodes)

(***************************************************************************)
(* The NPCs: every entry of conditions holds conditions of its own opcode, *)
(* as the entries of a classified mapping do; an opcode may come twice.    *)
(***************************************************************************)
Cvp1(o, m) == ConditionVarPair(o, <<Atom(m)>>)
NpcEntries ==
    {<<"CREATE_ANNOUNCEMENT_WITH_ID", <<Cvp1("CREATE_ANNOUNCEMENT_WITH_ID", <<2>>),
                                        Cvp1("CREATE_ANNOUNCEMENT_WITH_ID", <<1>>)>>>>,
     <<"CREATE_ANNOUNCEMENT_WITH_PUZZLEHASH", <<Cvp1("CREATE_ANNOUNCEMENT_WITH_PUZZLEHASH", <<1>>),
                                                Cvp1("CREATE_ANNOUNCEMENT_WITH_PUZZLEHASH", <<3>>)>>>>}
NpcIds == {<<<<21>>, <<31>>>>, <<<<22>>, <<32>>>>}
Npcs ==
    {NPC(id[1], id[2], c) : id \in NpcIds, c \in SeqsOf(NpcEntries, 0, MaxEntries)}
NpcLists == SeqsOf(Npcs, 0, MaxNpcs)

InputCoin(npc) == [name |-> npc.coin_name, puzzle_hash |-> npc.puzzle_hash]

\* The programs: the interpreter's outcome on the one solution.
Solutions == {"solution"}
RunOutcomes == {EvalError} \cup {Ran(c, r) : c \in 0..MaxCost, r \in Outputs}
Programs == [Solutions -> RunOutcomes]

(***************************************************************************)
(* The state machine: a call from idle, and the caller taking the result.  *)
(***************************************************************************)
Init ==
    /\ op = "idle"
    /\ arg = None
    /\ out = None

CallParseSexpToCondition ==
    /\ op = "idle"
    /\ \E sexp \in Nodes :
        /\ op' = "parse_sexp_to_condition"
        /\ arg' = [sexp |-> sexp]
        /\ out' = parse_sexp_to_condition(sexp)

CallParseSexpToConditions ==
    /\ op = "idle"
    /\ \E sexp \in Outputs :
        /\ op' = "parse_sexp_to_conditions"
        /\ arg' = [sexp |-> sexp]
        /\ out' = parse_sexp_to_conditions(sexp)

CallConditionsByOpcode ==
    /\ op = "idle"
    /\ \E conditions \in CondLists :
        /\ op' = "conditions_by_opcode"
        /\ arg' = [conditions |-> conditions]
        /\ out' = Return(NoError, Some(conditions_by_opcode(conditions)), 0)

CallPkmPairsForConditionsDict ==
    /\ op = "idle"
    /\ \E sexp \in SigOutputs, coin_name \in CoinNames :
        LET parsed == parse_sexp_to_conditions(sexp) IN
        /\ parsed.kind = "return"
        /\ parsed.err = NoError
        /\ op' = "pkm_pairs_for_conditions_dict"
        /\ arg' = [conditions |-> parsed.val.v, coin_name |-> coin_name]
        /\ out' = pkm_pairs_for_conditions_dict(conditions_by_opcode(parsed.val.v), coin_name)

CallCreatedOutputsForConditionsDict ==
    /\ op = "idle"
    /\ \E sexp \in CoinOutputs, input_coin_name \in {<<21>>} :
        LET parsed == parse_sexp_to_conditions(sexp) IN
        /\ parsed.kind = "return"
        /\ parsed.err = NoError
        /\ op' = "created_outputs_for_conditions_dict"
        /\ arg' = [conditions |-> parsed.val.v, input_coin_name |-> input_coin_name]
        /\ out' = created_outputs_for_conditions_dict(conditions_by_opcode(parsed.val.v),
                                                      input_coin_name)

CallCoinAnnouncementNamesForConditionsDict ==
    /\ op = "idle"
    /\ \E npc \in Npcs :
        /\ op' = "coin_announcement_names_for_conditions_dict"
        /\ arg' = [npc |-> npc]
        /\ out' = Return(NoError,
                         Some(coin_announcement_names_for_conditions_dict(
                                  conditions_by_opcode(Flatten(npc.conditions)), InputCoin(npc))),
                         0)

CallPuzzleAnnouncementNamesForConditionsDict ==
    /\ op = "idle"
    /\ \E npc \in Npcs :
        /\ op' = "puzzle_announcement_names_for_conditions_dict"
        /\ arg' = [npc |-> npc]
        /\ out' = Return(NoError,
                         Some(puzzle_announcement_names_for_conditions_dict(
                                  conditions_by_opcode(Flatten(npc.conditions)), InputCoin(npc))),
                         0)

CallCoinAnnouncementsNamesForNpc ==
    /\ op = "idle"
    /\ \E npc_list \in NpcLists :
        /\ op' = "coin_announcements_names_for_npc"
        /\ arg' = [npc_list |-> npc_list]
        /\ out' = Return(NoError, Some(coin_announcements_names_for_npc(npc_list)), 0)

CallPuzzleAnnouncementsNamesForNpc ==
    /\ op = "idle"
    /\ \E npc_list \in NpcLists :
        /\ op' = "puzzle_announcements_names_for_npc"
        /\ arg' = [npc_list |-> npc_list]
        /\ out' = Return(NoError, Some(puzzle_announcements_names_for_npc(npc_list)), 0)

CallConditionDict ==
    /\ op = "idle"
    /\ \E npc \in Npcs :
        /\ op' = "condition_dict"
        /\ arg' = [npc |-> npc]
        /\ out' = Return(NoError, Some(condition_dict(npc)), 0)

CallConditionsForSolution ==
    /\ op = "idle"
    /\ \E puzzle_reveal \in Programs, solution \in Solutions :
        /\ op' = "conditions_for_solution"
        /\ arg' = [puzzle_reveal |-> puzzle_reveal, solution |-> solution]
        /\ out' = conditions_for_solution(puzzle_reveal, solution)

CallConditionsDictForSolution ==
    /\ op = "idle"
    /\ \E puzzle_reveal \in Programs, solution \in Solutions :
        /\ op' = "conditions_dict_for_solution"
        /\ arg' = [puzzle_reveal |-> puzzle_reveal, solution |-> solution]
        /\ out' = conditions_dict_for_solution(puzzle_reveal, solution)

Done ==
    /\ op # "idle"
    /\ op' = "idle"
    /\ arg' = None
    /\ out' = None

Next ==
    \/ CallParseSexpToCondition
    \/ CallParseSexpToConditions
    \/ CallConditionsByOpcode
    \/ CallPkmPairsForConditionsDict
    \/ CallCreatedOutputsForConditionsDict
    \/ CallCoinAnnouncementNamesForConditionsDict
    \/ CallPuzzleAnnouncementNamesForConditionsDict
    \/ CallCoinAnnouncementsNamesForNpc
    \/ CallPuzzleAnnouncementsNamesForNpc
    \/ CallConditionDict
    \/ CallConditionsForSolution
    \/ CallConditionsDictForSolution
    \/ Done

Spec == Init /\ [][Next]_vars

\* The parser and the classifier.
NextParse ==
    \/ CallParseSexpToCondition
    \/ CallParseSexpToConditions
    \/ CallConditionsByOpcode
    \/ Done

SpecParse == Init /\ [][NextParse]_vars

\* The projections of one spend's classified conditions.
NextProjection ==
    \/ CallPkmPairsForConditionsDict
    \/ CallCreatedOutputsForConditionsDict
    \/ Done

SpecProjection == Init /\ [][NextProjection]_vars

\* The announcement names and the NPC aggregate.
NextNpc ==
    \/ CallCoinAnnouncementNamesForConditionsDict
    \/ CallPuzzleAnnouncementNamesForConditionsDict
    \/ CallCoinAnnouncementsNamesForNpc
    \/ CallPuzzleAnnouncementsNamesForNpc
    \/ CallConditionDict
    \/ Done

SpecNpc == Init /\ [][NextNpc]_vars

\* The orchestrator.
NextSolution ==
    \/ CallConditionsForSolution
    \/ CallConditionsDictForSolution
    \/ Done

SpecSolution == Init /\ [][NextSolution]_vars

(***************************************************************************)
(* Properties.                                                             *)
(***************************************************************************)
OfOpcode(cs, o) == SelectSeq(cs, LAMBDA c : c.opcode = o)

RECURSIVE ConcatAll(_)
ConcatAll(ss) == IF ss = <<>> THEN <<>> ELSE Head(ss) \o ConcatAll(Tail(ss))

ReturnedError(o) == o.kind = "return" /\ o.err # NoError
ReturnedValue(o) == o.kind = "return" /\ o.err = NoError /\ ~o.val.none

WellFormedNode(n) == n.listp /\ Len(n.items) \in {2, 3} /\ n.items[1].atom

\* C1: parse_sexp_to_condition returns INVALID_CONDITION and no
\* ConditionVarPair for every node that is no list, every list node whose
\* first element is no byte string and every list node of other than 2 or 3
\* elements; it neither returns a ConditionVarPair nor raises.
C1_MalformedNodeRejected ==
    (op = "parse_sexp_to_condition" /\ ~WellFormedNode(arg.sexp)) =>
        /\ out.kind = "return"
        /\ out.err = INVALID_CONDITION
        /\ out.val.none

\* C2: for every list node of 2 or 3 elements whose first element is a byte
\* string, parse_sexp_to_condition returns no error and a ConditionVarPair
\* whose vars are the remaining elements in order and whose opcode is the
\* opcode of the table with that encoding, or UNKNOWN when there is none.
C2_WellFormedNodeParses ==
    (op = "parse_sexp_to_condition" /\ WellFormedNode(arg.sexp)) =>
        /\ ReturnedValue(out)
        /\ out.val.v.vars = Tail(arg.sexp.items)
        /\ out.val.v.opcode \in Opcodes
        /\ IF \E k \in Opcodes : ConditionOpcode[k] = arg.sexp.items[1].b
           THEN ConditionOpcode[out.val.v.opcode] = arg.sexp.items[1].b
           ELSE out.val.v.opcode = "UNKNOWN"

\* A 3-element node whose encoding is outside the table has been parsed.
C2_Witness ==
    /\ op = "parse_sexp_to_condition"
    /\ WellFormedNode(arg.sexp)
    /\ Len(arg.sexp.items) = 3
    /\ \A k \in Opcodes : ConditionOpcode[k] # arg.sexp.items[1].b
    /\ ReturnedValue(out)
    /\ Len(out.val.v.vars) = 2

NodeParses(n) == ReturnedValue(parse_sexp_to_condition(n))

\* C3: parse_sexp_to_conditions is all or nothing: if every node parses it
\* returns (None, list), the list as long as the input and its i-th element
\* the parse of the i-th node; if a node fails it returns the error of the
\* first failing node together with None.
C3_AllOrNothing ==
    op = "parse_sexp_to_conditions" =>
        LET sexp == arg.sexp
            failing == {i \in 1..Len(sexp) : ~NodeParses(sexp[i])}
        IN IF failing = {}
           THEN /\ ReturnedValue(out)
                /\ Len(out.val.v) = Len(sexp)
                /\ \A i \in 1..Len(sexp) :
                      out.val.v[i] = parse_sexp_to_condition(sexp[i]).val.v
           ELSE LET first == CHOOSE i \in failing : \A j \in failing : i <= j
                    r == parse_sexp_to_condition(sexp[first])
                IN /\ ReturnedError(out)
                   /\ out.val.none
                   /\ ReturnedError(r)
                   /\ out.err = r.err

\* C4: whenever conditions_for_solution or conditions_dict_for_solution
\* returns an error, the conditions it returns are None and the cost is 0.
C4_ErrorHasNoConditionsAndNoCost ==
    (op \in {"conditions_for_solution", "conditions_dict_for_solution"} /\ ReturnedError(out)) =>
        /\ out.val.none
        /\ out.cost = 0

\* C5: conditions_by_opcode partitions its input and keeps the order: the
\* keys are the opcodes of the input, the list under an opcode is the
\* subsequence of the input conditions of that opcode, no list is empty,
\* and every input condition is in the mapping as often as in the input.
C5_ClassifyPartitions ==
    op = "conditions_by_opcode" =>
        LET cs == arg.conditions
            d == out.val.v
        IN /\ DOMAIN d = {cs[i].opcode : i \in 1..Len(cs)}
           /\ \A o \in DOMAIN d : d[o] = OfOpcode(cs, o) /\ d[o] # <<>>
           /\ \A i \in 1..Len(cs) :
                 Cardinality({j \in 1..Len(d[cs[i].opcode]) : d[cs[i].opcode][j] = cs[i]})
                     = Cardinality({j \in 1..Len(cs) : cs[j] = cs[i]})

\* UNKNOWN conditions on both sides of another opcode have been classified.
C5_Witness ==
    /\ op = "conditions_by_opcode"
    /\ Len(arg.conditions) = 3
    /\ arg.conditions[1].opcode = "UNKNOWN"
    /\ arg.conditions[2].opcode = "CREATE_COIN"
    /\ arg.conditions[3].opcode = "UNKNOWN"
    /\ arg.conditions[1] # arg.conditions[3]
    /\ Len(out.val.v["UNKNOWN"]) = 2

SigWellFormed(c) ==
    /\ Len(c.vars) = 2
    /\ c.vars[1].atom
    /\ c.vars[1].b \in G1Encodings
    /\ c.vars[2].atom

\* The entries pkm_pairs_for_conditions_dict reads: AGG_SIG, then, with a
\* coin name, AGG_SIG_ME.
SigEntries(a) == OfOpcode(a.conditions, "AGG_SIG")
SigMeEntries(a) == IF a.coin_name.none THEN <<>> ELSE OfOpcode(a.conditions, "AGG_SIG_ME")

\* C6: pkm_pairs_for_conditions_dict gives, for every AGG_SIG entry in
\* order, (decode(vars[0]), vars[1]), then, with a coin name, for every
\* AGG_SIG_ME entry in order, (decode(vars[0]), vars[1] ++ coin_name), and
\* nothing for AGG_SIG_ME without a coin name; with a coin name that is not
\* empty the AGG_SIG_ME message differs from vars[1].  The entries read hold
\* two byte strings, the first a decodable key.
C6_SignaturePairs ==
    op = "pkm_pairs_for_conditions_dict" =>
        LET sigs == SigEntries(arg)
            mes == SigMeEntries(arg)
        IN ((\A i \in 1..Len(sigs) : SigWellFormed(sigs[i]))
             /\ (\A i \in 1..Len(mes) : SigWellFormed(mes[i]))) =>
               /\ ReturnedValue(out)
               /\ Len(out.val.v) = Len(sigs) + Len(mes)
               /\ \A i \in 1..Len(sigs) :
                     out.val.v[i] = <<[g1 |-> sigs[i].vars[1].b], sigs[i].vars[2]>>
               /\ \A i \in 1..Len(mes) :
                     /\ out.val.v[Len(sigs) + i] =
                            <<[g1 |-> mes[i].vars[1].b],
                              Atom(mes[i].vars[2].b \o arg.coin_name.v)>>
                     /\ arg.coin_name.v # <<>> =>
                            out.val.v[Len(sigs) + i][2] # mes[i].vars[2]

\* Pairs of an AGG_SIG and of an AGG_SIG_ME entry have been made for a coin
\* name that is not empty.
C6_Witness ==
    /\ op = "pkm_pairs_for_conditions_dict"
    /\ ~arg.coin_name.none
    /\ arg.coin_name.v # <<>>
    /\ Len(SigEntries(arg)) >= 1
    /\ Len(SigMeEntries(arg)) >= 1
    /\ ReturnedValue(out)
    /\ Len(out.val.v) >= 2

\* C7: created_outputs_for_conditions_dict decodes the amount 0x00 to 0 and
\* fails on an amount whose encoding is negative: it returns no Coin of a
\* negative amount.  (The CREATE_COIN entries hold two arguments.)
C7_NegativeAmountRejected ==
    op = "created_outputs_for_conditions_dict" =>
        LET cs == OfOpcode(arg.conditions, "CREATE_COIN") IN
        (\A i \in 1..Len(cs) : Len(cs[i].vars) = 2) =>
            /\ (\E i \in 1..Len(cs) : cs[i].vars[2].b # <<>> /\ cs[i].vars[2].b[1] >= 128) =>
                   out.kind = "raise"
            /\ ReturnedValue(out) =>
                   \A i \in 1..Len(cs) :
                       /\ out.val.v[i].amount >= 0
                       /\ cs[i].vars[2].b = <<0>> => out.val.v[i].amount = 0

\* C8: given classified conditions with an AGG_SIG, AGG_SIG_ME or
\* CREATE_COIN condition of one argument, pkm_pairs_for_conditions_dict and
\* created_outputs_for_conditions_dict fail with an error that is no
\* IndexError.
C8_ArgumentCountValidated ==
    /\ (op = "pkm_pairs_for_conditions_dict"
        /\ \E i \in 1..Len(SigEntries(arg) \o SigMeEntries(arg)) :
              Len((SigEntries(arg) \o SigMeEntries(arg))[i].vars) = 1) =>
           (out.kind = "raise" /\ out.exc # "IndexError")
    /\ (op = "created_outputs_for_conditions_dict"
        /\ \E i \in 1..Len(arg.conditions) :
              arg.conditions[i].opcode = "CREATE_COIN" /\ Len(arg.conditions[i].vars) = 1) =>
           (out.kind = "raise" /\ out.exc # "IndexError")

\* The names one spend's classified conditions give, computed from the
\* conditions themselves.
NamesOf(npc, opcode, scope) ==
    LET cs == OfOpcode(Flatten(npc.conditions), opcode)
    IN [j \in 1..Len(cs) |-> std_hash(scope \o cs[j].vars[1].b)]

\* C9: coin_announcements_names_for_npc returns, in spend order and then in
\* condition order, one name hash(npc.coin_name ++ vars[0]) for every
\* CREATE_ANNOUNCEMENT_WITH_ID condition and nothing for another opcode,
\* which is the concatenation over the spends of
\* coin_announcement_names_for_conditions_dict on the spend's classified
\* conditions; puzzle_announcements_names_for_npc likewise with
\* CREATE_ANNOUNCEMENT_WITH_PUZZLEHASH and npc.puzzle_hash.
C9_BatchNamesAgree ==
    /\ op = "coin_announcements_names_for_npc" =>
           LET l == arg.npc_list IN
           /\ out.val.v = ConcatAll([i \in 1..Len(l) |->
                              NamesOf(l[i], "CREATE_ANNOUNCEMENT_WITH_ID", l[i].coin_name)])
           /\ out.val.v = ConcatAll([i \in 1..Len(l) |->
                              coin_announcement_names_for_conditions_dict(
                                  conditions_by_opcode(Flatten(l[i].conditions)),
                                  InputCoin(l[i]))])
    /\ op = "puzzle_announcements_names_for_npc" =>
           LET l == arg.npc_list IN
           /\ out.val.v = ConcatAll([i \in 1..Len(l) |->
                              NamesOf(l[i], "CREATE_ANNOUNCEMENT_WITH_PUZZLEHASH", l[i].puzzle_hash)])
           /\ out.val.v = ConcatAll([i \in 1..Len(l) |->
                              puzzle_announcement_names_for_conditions_dict(
                                  conditions_by_opcode(Flatten(l[i].conditions)),
                                  InputCoin(l[i]))])

\* The coin names of two spends of different coins have been made, one spend
\* holding announcements of both scopes.
C9_Witness ==
    /\ op = "coin_announcements_names_for_npc"
    /\ Len(arg.npc_list) = 2
    /\ arg.npc_list[1].coin_name # arg.npc_list[2].coin_name
    /\ Len(arg.npc_list[1].conditions) = 2
    /\ arg.npc_list[1].conditions[1][1] = "CREATE_ANNOUNCEMENT_WITH_PUZZLEHASH"
    /\ arg.npc_list[1].conditions[2][1] = "CREATE_ANNOUNCEMENT_WITH_ID"
    /\ arg.npc_list[2].conditions # <<>>
    /\ Len(out.val.v) >= 3

\* C10: condition_dict is conditions_by_opcode of the conditions of
\* npc.conditions: every ConditionVarPair of npc.conditions is in the
\* mapping under its opcode, also when an opcode comes twice.
C10_ConditionDictIsClassification ==
    op = "condition_dict" =>
        /\ out.val.v = conditions_by_opcode(Flatten(arg.npc.conditions))
        /\ \A i \in 1..Len(arg.npc.conditions) :
              \A j \in 1..Len(arg.npc.conditions[i][2]) :
                  LET cvp == arg.npc.conditions[i][2][j] IN
                  /\ cvp.opcode \in DOMAIN out.val.v
                  /\ \E k \in 1..Len(out.val.v[cvp.opcode]) : out.val.v[cvp.opcode][k] = cvp

=============================================================================
